---- MODULE Spec2Model ----
(***************************************************************************)
(* RAG backend (backend/rag-pipeline/app.py): the text chunker             *)
(* chunk_markdown, the HTTP wrapper senso_post, and the two endpoints      *)
(* ingest_from_apify and rag_search.                                       *)
(*                                                                         *)
(* A Python str is a sequence of one-character strings.  A Python value    *)
(* that may be None is a tagged record: None, Str(s) or Dict(f); a dict is *)
(* a function whose DOMAIN is the set of keys present.                     *)
(***************************************************************************)
EXTENDS Integers, Sequences, FiniteSets, TLC

VARIABLES
    \* ---- chunk_markdown(md, chunk_chars, overlap) ----
    cpc,          \* "call" | "loop" | "done"
    arg_md,       \* the md argument as passed (None or Str)
    chunk_chars,  \* the chunk_chars argument
    overlap,      \* the overlap argument
    md,           \* the local md after line 31
    i,            \* the local i
    chunks,       \* the local chunks
    spans,        \* history: <<i, end>> of every append at line 36
    \* ---- the indexing service, as seen from this process ----
    wire,         \* the requests posted so far: [url, json], in order
    resps,        \* history: what came back for each request, in order
    result,       \* how the running call ended: a return value or an exception
    \* ---- senso_post(path, payload) ----
    ppc,          \* "call" | "sent" | "done"
    p_path,       \* the path argument
    p_payload,    \* the payload argument
    \* ---- ingest_from_apify(body) ----
    ipc,          \* "start" | "items" | "chunks" | "returned" | "raised"
    in_body,      \* the IngestBody
    run_input,    \* the run_input given to the actor
    dataset,      \* the items dataset.iterate_items() yields, in order
    pos,          \* items taken from the iterator so far
    title,        \* the local title of the current item
    cur_chunks,   \* chunk_markdown(md) of the current item
    idx,          \* chunks of the current item already submitted
    ingested,     \* the local ingested
    content_ids,  \* the local content_ids
    \* ---- rag_search(body) ----
    spc,          \* "call" | "done"
    s_body        \* the SearchBody

chunkVars == <<cpc, arg_md, chunk_chars, overlap, md, i, chunks, spans>>

httpVars == <<wire, resps, result>>

postVars == <<ppc, p_path, p_payload>>

ingestVars ==
    <<ipc, in_body, run_input, dataset, pos, title, cur_chunks, idx,
      ingested, content_ids>>

searchVars == <<spc, s_body>>

vars == <<chunkVars, httpVars, postVars, ingestVars, searchVars>>

----------------------------------------------------------------------------
\* Bounds of the model.

\* Longest text given to chunk_markdown in the small cases.
MaxLen == 4

\* Largest chunk_chars / overlap tried in the small cases.
MaxChunkChars == 3

\* Most items a crawl dataset yields.
MaxItems == 2

----------------------------------------------------------------------------
\* Python values.

None == [t |-> "none"]

Str(s) == [t |-> "str", v |-> s]

Dict(f) == [t |-> "dict", v |-> f]

Num(n) == [t |-> "int", v |-> n]

List(q) == [t |-> "list", v |-> q]

\* {}
EmptyDict == Dict(<<>>)

\* Python truth value of None, a str or a dict.
Truthy(x) ==
    CASE x.t = "none" -> FALSE
      [] x.t = "str"  -> x.v # <<>>
      [] x.t = "dict" -> DOMAIN x.v # {}
      [] x.t = "int"  -> x.v # 0
      [] x.t = "list" -> x.v # <<>>

\* x or y
Or(x, y) == IF Truthy(x) THEN x ELSE y

\* d.get(k) on a dict d (the function of its keys)
Get(d, k) == IF k \in DOMAIN d THEN d[k] ELSE None

\* d.get(k, dflt)
GetDefault(d, k, dflt) == IF k \in DOMAIN d THEN d[k] ELSE dflt

\* x.get(k) where x is a dict value; None when x is no dict
DictGet(x, k) == IF x.t = "dict" THEN Get(x.v, k) ELSE None

DigitChars == <<"0", "1", "2", "3", "4", "5", "6", "7", "8", "9">>

\* str(n) for n >= 0
RECURSIVE Dec(_)
Dec(n) ==
    IF n < 10 THEN <<DigitChars[n + 1]>>
    ELSE Dec(n \div 10) \o <<DigitChars[(n % 10) + 1]>>

\* What an f-string writes for a str or None.
Format(x) == IF x.t = "none" THEN <<"N", "o", "n", "e">> ELSE x.v

Min(a, b) == IF a <= b THEN a ELSE b

Max(a, b) == IF a >= b THEN a ELSE b

\* The characters str.strip() removes (two of them stand for all).
Whitespace == {" ", "\n"}

RECURSIVE LStrip(_)
LStrip(s) ==
    IF s # <<>> /\ Head(s) \in Whitespace THEN LStrip(Tail(s)) ELSE s

RECURSIVE RStrip(_)
RStrip(s) ==
    IF s # <<>> /\ s[Len(s)] \in Whitespace
    THEN RStrip(SubSeq(s, 1, Len(s) - 1))
    ELSE s

\* s.strip()
Strip(s) == RStrip(LStrip(s))

\* Python's slice index clamp for s[lo:hi] on a string of length n.
SliceIndex(k, n) == IF k < 0 THEN Max(k + n, 0) ELSE Min(k, n)

\* s[lo:hi]
PySlice(s, lo, hi) ==
    SubSeq(s, SliceIndex(lo, Len(s)) + 1, SliceIndex(hi, Len(s)))

\* c * n
Rep(c, n) == [k \in 1..n |-> c]

----------------------------------------------------------------------------
\* chunk_markdown

DefaultChunkChars == 4000

DefaultOverlap == 300

\* Mutant of ChunkStrip: the strip() is forgotten.
ChunkNoStrip(m) == Or(m, Str(<<>>)).v

\* line 31: md = (md or "").strip()
ChunkStrip(m) == Strip(Or(m, Str(<<>>)).v)

\* Mutant of ChunkEnd: the end is taken one character too far.
ChunkEndInclusive(ii, cc, n) == Min(ii + cc + 1, n)

\* line 35: end = min(i + chunk_chars, len(md))
ChunkEnd(ii, cc, n) == Min(ii + cc, n)

\* Mutant of ChunkNextStart: the overlap is forgotten.
ChunkNextStartNoOverlap(end, ov) == end

\* Mutant of ChunkNextStart: the overlap is added, not subtracted.
ChunkNextStartPastEnd(end, ov) == end + ov

\* Mutant of ChunkNextStart: one character more is stepped back.
ChunkNextStartOffByOne(end, ov) == end - ov - 1

\* line 38: i = end - overlap
ChunkNextStart(end, ov) == end - ov

\* line 36: md[i:end]
ChunkSlice(m, ii, end) == PySlice(m, ii, end)

\* lines 34-39 as a function of the loop state.
RECURSIVE ChunkLoop(_, _, _, _, _)
ChunkLoop(m, ii, cs, cc, ov) ==
    IF ~(ii < Len(m)) THEN cs
    ELSE LET end == ChunkEnd(ii, cc, Len(m))
             cs2 == Append(cs, ChunkSlice(m, ii, end))
         IN  IF end = Len(m) THEN cs2
             ELSE ChunkLoop(m, ChunkNextStart(end, ov), cs2, cc, ov)

\* chunk_markdown(md, chunk_chars, overlap), for a terminating call.
ChunkMarkdown(m, cc, ov) ==
    LET s == ChunkStrip(m)
    IN  IF s = <<>> THEN <<>> ELSE ChunkLoop(s, 0, <<>>, cc, ov)

\* The texts of the small cases.
Alphabet == {" ", "a", "b"}

Texts == UNION {[1..n -> Alphabet] : n \in 0..MaxLen}

\* The example text of the documentation: "A" * 4300.
ExampleText == Rep("A", 4300)

ChunkInputs ==
    {<<m, cc, ov>> : m \in {None} \cup {Str(s) : s \in Texts},
                     cc \in (0 - 1)..MaxChunkChars,
                     ov \in (0 - 2)..MaxChunkChars}
    \cup {<<Str(ExampleText), DefaultChunkChars, DefaultOverlap>>}

\* The loop appends one chunk per iteration; a call that never ends is cut
\* off after this many chunks (a call with overlap < chunk_chars ends before).
MaxChunks == MaxLen + 2

\* The variables of the calls a specification does not run keep these values.
NoResult == [kind |-> "none", status_code |-> 0, detail |-> <<>>, value |-> None]

ChunkIdle ==
    /\ cpc = "done"
    /\ arg_md = None
    /\ chunk_chars = 0
    /\ overlap = 0
    /\ md = <<>>
    /\ i = 0
    /\ chunks = <<>>
    /\ spans = <<>>

HttpIdle ==
    /\ wire = <<>>
    /\ resps = <<>>
    /\ result = NoResult

PostIdle ==
    /\ ppc = "done"
    /\ p_path = <<>>
    /\ p_payload = EmptyDict

IngestIdle ==
    /\ ipc = "returned"
    /\ in_body = <<>>
    /\ run_input = <<>>
    /\ dataset = <<>>
    /\ pos = 0
    /\ title = <<>>
    /\ cur_chunks = <<>>
    /\ idx = 0
    /\ ingested = 0
    /\ content_ids = <<>>

SearchIdle ==
    /\ spc = "done"
    /\ s_body = <<>>

InitChunk ==
    /\ cpc = "call"
    /\ \E inp \in ChunkInputs :
          /\ arg_md = inp[1]
          /\ chunk_chars = inp[2]
          /\ overlap = inp[3]
    /\ md = <<>>
    /\ i = 0
    /\ chunks = <<>>
    /\ spans = <<>>
    /\ HttpIdle
    /\ PostIdle
    /\ IngestIdle
    /\ SearchIdle

\* lines 31-33
ChunkEnter ==
    /\ cpc = "call"
    /\ md' = ChunkStrip(arg_md)
    /\ cpc' = IF md' = <<>> THEN "done" ELSE "loop"
    /\ i' = 0
    /\ chunks' = <<>>
    /\ UNCHANGED <<arg_md, chunk_chars, overlap, spans>>
    /\ UNCHANGED <<httpVars, postVars, ingestVars, searchVars>>

\* lines 34-38: one iteration of the while loop (or its exit)
ChunkIter ==
    /\ cpc = "loop"
    /\ Len(chunks) < MaxChunks
    /\ IF ~(i < Len(md))
       THEN /\ cpc' = "done"
            /\ UNCHANGED <<i, chunks, spans>>
       ELSE LET end == ChunkEnd(i, chunk_chars, Len(md))
            IN  /\ chunks' = Append(chunks, ChunkSlice(md, i, end))
                /\ spans' = Append(spans, <<i, end>>)
                /\ IF end = Len(md)
                   THEN cpc' = "done" /\ i' = i
                   ELSE cpc' = "loop" /\ i' = ChunkNextStart(end, overlap)
    /\ UNCHANGED <<arg_md, chunk_chars, overlap, md>>
    /\ UNCHANGED <<httpVars, postVars, ingestVars, searchVars>>

NextChunk == ChunkEnter \/ ChunkIter

SpecChunk == InitChunk /\ [][NextChunk]_vars

SpecChunkFair == SpecChunk /\ WF_vars(NextChunk)

----------------------------------------------------------------------------
\* Properties of chunk_markdown.

\* The precondition the documentation states: 0 < V < L.
ValidParams == 0 < overlap /\ overlap < chunk_chars

\* The k-th chunk's <<start, end>> as the contract states it: the first
\* starts at 0, the next at the previous end minus the overlap, and each
\* ends at min(start + L, len).
ClaimSpan[k \in Nat] ==
    LET s == IF k <= 1 THEN 0 ELSE ClaimSpan[k - 1][2] - overlap
    IN  <<s, Min(s + chunk_chars, Len(md))>>

IsExampleCall ==
    /\ arg_md = Str(ExampleText)
    /\ chunk_chars = DefaultChunkChars
    /\ overlap = DefaultOverlap

\* C1: with 0 < V < L the chunks sit in strip(s) exactly at: first start 0,
\* next start = previous end - V, end = min(start + L, len), no negative
\* start; and "A"*4300 with (4000, 300) gives exactly [0,4000), [3700,4300).
C1_ChunkPositions ==
    /\ (ValidParams /\ cpc # "call") =>
          /\ Len(spans) = Len(chunks)
          /\ \A k \in 1..Len(chunks) :
                /\ spans[k] = ClaimSpan[k]
                /\ spans[k][1] >= 0
                /\ chunks[k] = SubSeq(md, ClaimSpan[k][1] + 1, ClaimSpan[k][2])
    /\ (IsExampleCall /\ cpc = "done") =>
          /\ spans = << <<0, 4000>>, <<3700, 4300>> >>
          /\ chunks = << Rep("A", 4000), Rep("A", 600) >>

C1_Witness ==
    /\ IsExampleCall
    /\ cpc = "done"
    /\ Len(chunks) = 2

\* C2: with 0 < V < L no chunk is longer than L, at every iteration.
C2_ChunkLengthBound ==
    ValidParams => \A k \in 1..Len(chunks) : Len(chunks[k]) <= chunk_chars

C2_Witness ==
    /\ ValidParams
    /\ cpc = "loop"
    /\ Len(chunks) >= 2
    /\ \E k \in 1..Len(chunks) : Len(chunks[k]) = chunk_chars

\* C3: with 0 < V < L and a non-empty stripped text, the chunks cover every
\* offset of [0, len), consecutive chunks overlap by at least V (exactly V
\* for every pair but possibly the last), the last chunk ends at len, and
\* no chunk is produced after one that reaches len.
C3_Coverage ==
    (ValidParams /\ cpc # "call" /\ md # <<>>) =>
       /\ \A k \in 1..(Len(spans) - 1) :
             /\ spans[k][2] - spans[k + 1][1] >= overlap
             /\ (k + 1 < Len(spans)) => spans[k][2] - spans[k + 1][1] = overlap
             /\ SubSeq(chunks[k], Len(chunks[k]) - overlap + 1, Len(chunks[k]))
                   = SubSeq(chunks[k + 1], 1, overlap)
             /\ spans[k][2] < Len(md)
       /\ (cpc = "loop") => \A k \in 1..Len(spans) : spans[k][2] < Len(md)
       /\ (cpc = "done") =>
             /\ Len(spans) >= 1
             /\ spans[Len(spans)][2] = Len(md)
             /\ \A p \in 0..(Len(md) - 1) :
                   \E k \in 1..Len(spans) : spans[k][1] <= p /\ p < spans[k][2]

C3_Witness ==
    /\ ValidParams
    /\ cpc = "done"
    /\ Len(chunks) >= 3

\* C4: whenever V < L (V = 0 and negative V included) the splitting loop
\* ends, and the start offset grows on every iteration that continues.
C4_Termination ==
    /\ (overlap < chunk_chars) ~> (cpc = "done")
    /\ [][(overlap < chunk_chars /\ cpc = "loop" /\ cpc' = "loop") => i' > i]_vars

C4_Witness ==
    /\ overlap <= 0
    /\ overlap < chunk_chars
    /\ cpc = "done"
    /\ Len(chunks) >= 2

HasNonWhitespace(m) ==
    m.t = "str" /\ \E k \in 1..Len(m.v) : m.v[k] \notin Whitespace

\* C5: a missing, empty or whitespace-only input gives no chunk; with
\* 0 < V < L an input holding a non-whitespace character gives at least one.
C5_EmptyIffBlank ==
    (cpc = "done") =>
       /\ ~HasNonWhitespace(arg_md) => chunks = <<>>
       /\ (HasNonWhitespace(arg_md) /\ ValidParams) => Len(chunks) >= 1

C5_Witness ==
    /\ cpc = "done"
    /\ arg_md.t = "str"
    /\ Len(arg_md.v) >= 2
    /\ ~HasNonWhitespace(arg_md)
    /\ chunks = <<>>

----------------------------------------------------------------------------
\* senso_post

\* "/content/raw"
PathContentRaw ==
    <<"/", "c", "o", "n", "t", "e", "n", "t", "/", "r", "a", "w">>

\* "/search"
PathSearch ==
    <<"/", "s", "e", "a", "r", "c", "h">>

\* "Senso error: "
SensoErrorPrefix ==
    <<"S", "e", "n", "s", "o", " ", "e", "r", "r", "o", "r", ":", " ">>

\* Response bodies.  "boom"
TextBoom ==
    <<"b", "o", "o", "m">>

\* '{}'
TextEmptyObject ==
    <<"{", "}">>

\* '{"id":"c1"}'
TextId ==
    <<"{", "\"", "i", "d", "\"", ":", "\"", "c", "1", "\"", "}">>

\* '{"content_id":"c2"}'
TextContentId ==
    <<"{", "\"", "c", "o", "n", "t", "e", "n", "t", "_", "i", "d", "\"",
      ":", "\"", "c", "2", "\"", "}">>

\* '{"results":[],"total_results":0}'
TextNoResults ==
    <<"{", "\"", "r", "e", "s", "u", "l", "t", "s", "\"", ":", "[", "]",
      ",", "\"", "t", "o", "t", "a", "l", "_", "r", "e", "s", "u", "l",
      "t", "s", "\"", ":", "0", "}">>

\* A search answer with two matches, the second one empty.
TextOneResult ==
    <<"{", "\"", "a", "n", "s", "w", "e", "r", "\"", ":", "\"", "A", "\"",
      ",", "\"", "r", "e", "s", "u", "l", "t", "s", "\"", ":", "[", "{",
      "\"", "c", "o", "n", "t", "e", "n", "t", "_", "i", "d", "\"", ":",
      "\"", "c", "1", "\"", ",", "\"", "t", "i", "t", "l", "e", "\"", ":",
      "\"", "T", "\"", ",", "\"", "s", "c", "o", "r", "e", "\"", ":", "1",
      ",", "\"", "c", "h", "u", "n", "k", "_", "t", "e", "x", "t", "\"",
      ":", "\"", "x", "\"", "}", ",", "{", "}", "]", ",", "\"", "t", "o",
      "t", "a", "l", "_", "r", "e", "s", "u", "l", "t", "s", "\"", ":",
      "2", ",", "\"", "p", "r", "o", "c", "e", "s", "s", "i", "n", "g",
      "_", "t", "i", "m", "e", "_", "m", "s", "\"", ":", "7", "}">>

\* What resp.json() finds in a body that is no JSON document.
NoJson == [t |-> "nojson"]

\* A body as the response object holds it: resp.text, and what resp.json()
\* parses from it.
Body(text, json) == [text |-> text, json |-> json]

BodyBoom == Body(TextBoom, NoJson)

BodyEmptyObject == Body(TextEmptyObject, EmptyDict)

BodyId == Body(TextId, Dict("id" :> Str(<<"c", "1">>)))

BodyContentId == Body(TextContentId, Dict("content_id" :> Str(<<"c", "2">>)))

BodyNoResults ==
    Body(TextNoResults,
         Dict("results" :> List(<<>>) @@ "total_results" :> Num(0)))

BodyOneResult ==
    Body(TextOneResult,
         Dict("answer" :> Str(<<"A">>)
              @@ "results" :> List(<<
                    Dict("content_id" :> Str(<<"c", "1">>)
                         @@ "title" :> Str(<<"T">>)
                         @@ "score" :> Num(1)
                         @@ "chunk_text" :> Str(<<"x">>)),
                    EmptyDict >>)
              @@ "total_results" :> Num(2)
              @@ "processing_time_ms" :> Num(7)))

\* A response of the indexing service.
Response(status, body) ==
    [status_code |-> status, text |-> body.text, json |-> body.json]

\* requests.post raised instead of returning (no connection, the 60 s timeout).
NoResponse == [status_code |-> 0, text |-> <<>>, json |-> NoJson]

\* The statuses tried: success, a redirect class status that is not
\* followed, client and server errors.
Statuses == {200, 201, 304, 404, 500}

\* Mutant of RespOk: only a 2xx status counts as a success.
RespOkOnly2xx(resp) == 200 <= resp.status_code /\ resp.status_code < 300

\* line 47: resp.ok (requests: no 4xx and no 5xx status)
RespOk(resp) == ~(400 <= resp.status_code /\ resp.status_code < 600)

\* line 42-43: the request that goes out
Request(path, payload) ==
    [url |-> <<"SENSO_BASE">> \o path, json |-> payload]

Returned(value) ==
    [kind |-> "return", status_code |-> 0, detail |-> <<>>, value |-> value]

Raised(kind, status, detail) ==
    [kind |-> kind, status_code |-> status, detail |-> detail, value |-> None]

\* line 48: HTTPException(status_code=resp.status_code,
\*                        detail=f"Senso error: {resp.text}")
HttpError(resp) ==
    Raised("HTTPException", resp.status_code, SensoErrorPrefix \o resp.text)

\* lines 43-49: how senso_post ends, given what the request met.
SensoPost(resp) ==
    IF resp = NoResponse THEN Raised("RequestException", 0, <<>>)
    ELSE IF ~RespOk(resp) THEN HttpError(resp)
    ELSE IF resp.json = NoJson THEN Raised("JSONDecodeError", 0, <<>>)
    ELSE Returned(resp.json)

PostBodies == {BodyBoom, BodyEmptyObject, BodyId, BodyNoResults}

PostResponses ==
    {Response(st, b) : st \in Statuses, b \in PostBodies} \cup {NoResponse}

PostPayloads ==
    { EmptyDict,
      Dict("query" :> Str(<<"q">>) @@ "max_results" :> Num(5)),
      Dict("title" :> Str(<<"T">>) @@ "text" :> Str(<<"x">>)) }

InitPost ==
    /\ ppc = "call"
    /\ p_path \in {PathContentRaw, PathSearch}
    /\ p_payload \in PostPayloads
    /\ HttpIdle
    /\ ChunkIdle
    /\ IngestIdle
    /\ SearchIdle

\* lines 42-46: the one requests.post of the call
PostSend ==
    /\ ppc = "call"
    /\ \E resp \in PostResponses :
          /\ wire' = Append(wire, Request(p_path, p_payload))
          /\ resps' = Append(resps, resp)
    /\ ppc' = "sent"
    /\ UNCHANGED <<result, p_path, p_payload>>
    /\ UNCHANGED <<chunkVars, ingestVars, searchVars>>

\* lines 47-49: raise or return
PostFinish ==
    /\ ppc = "sent"
    /\ result' = SensoPost(resps[Len(resps)])
    /\ ppc' = "done"
    /\ UNCHANGED <<wire, resps, p_path, p_payload>>
    /\ UNCHANGED <<chunkVars, ingestVars, searchVars>>

NextPost == PostSend \/ PostFinish

SpecPost == InitPost /\ [][NextPost]_vars

\* The response the finished call met.
LastResp == resps[Len(resps)]

Is2xx(resp) == 200 <= resp.status_code /\ resp.status_code < 300

IsError(resp) == 400 <= resp.status_code /\ resp.status_code < 600

\* The detail holds the upstream body text (after the fixed prefix).
CarriesText(detail, text) ==
    /\ Len(detail) >= Len(text)
    /\ SubSeq(detail, Len(detail) - Len(text) + 1, Len(detail)) = text

\* C6 as stated: an error with the upstream status and body for every
\* response that is not 2xx, the parsed JSON only for 2xx, one request per
\* call.
C6_Original ==
    (ppc = "done" /\ LastResp # NoResponse) =>
       /\ Len(wire) = 1
       /\ ~Is2xx(LastResp) =>
             /\ result.kind = "HTTPException"
             /\ result.status_code = LastResp.status_code
             /\ CarriesText(result.detail, LastResp.text)
       /\ (result.kind = "return") => Is2xx(LastResp)

\* C6 (amended): senso_post raises an error with the upstream status and
\* body text exactly for the responses with a 4xx or 5xx status; it returns
\* only for the other statuses (a 3xx that is not followed included), and
\* then the parsed JSON body; it posts once per call and never again.
C6_ErrorOnErrorStatus ==
    /\ Len(wire) <= 1
    /\ (ppc = "call") => wire = <<>>
    /\ (ppc # "call") => wire = <<Request(p_path, p_payload)>>
    /\ (ppc = "done" /\ LastResp # NoResponse) =>
          /\ IsError(LastResp) <=> result.kind = "HTTPException"
          /\ IsError(LastResp) =>
                /\ result.status_code = LastResp.status_code
                /\ CarriesText(result.detail, LastResp.text)
                /\ result.value = None
          /\ (result.kind = "return") =>
                /\ ~IsError(LastResp)
                /\ result.value = LastResp.json
          /\ (~IsError(LastResp) /\ LastResp.json # NoJson) =>
                result.kind = "return"

C6_Witness ==
    /\ ppc = "done"
    /\ LastResp = Response(500, BodyBoom)
    /\ result.kind = "HTTPException"
    /\ result.status_code = 500
    /\ CarriesText(result.detail, TextBoom)

----------------------------------------------------------------------------
\* ingest_from_apify

\* "**Source:** "
SourcePrefix ==
    <<"*", "*", "S", "o", "u", "r", "c", "e", ":", "*", "*", " ">>

\* "http://x"
UrlX ==
    <<"h", "t", "t", "p", ":", "/", "/", "x">>

\* "http://y"
UrlY ==
    <<"h", "t", "t", "p", ":", "/", "/", "y">>

\* "hello world"
HelloWorld ==
    <<"h", "e", "l", "l", "o", " ", "w", "o", "r", "l", "d">>

\* "Untitled"
Untitled ==
    <<"U", "n", "t", "i", "t", "l", "e", "d">>

\* " [part "
PartOpen ==
    <<" ", "[", "p", "a", "r", "t", " ">>

\* A page body long enough for a second chunk: "a" * 4000.
LongText == Rep("a", DefaultChunkChars)

\* Crawl result items.  The documented example: url, title and markdown.
ItemHello ==
    "url" :> Str(UrlX)
    @@ "metadata" :> Dict("title" :> Str(<<"T">>))
    @@ "markdown" :> Str(HelloWorld)

\* A whitespace-only markdown (the text is not looked at then).
ItemBlank ==
    "url" :> Str(UrlX)
    @@ "markdown" :> Str(<<" ", "\n">>)
    @@ "text" :> Str(<<"h", "i">>)

\* No url of its own, the url under metadata, no title, the body under text.
ItemLong ==
    "metadata" :> Dict("url" :> Str(UrlY))
    @@ "markdown" :> Str(<<>>)
    @@ "text" :> Str(LongText)

\* Only a body.
ItemBare == "markdown" :> Str(<<"h", "i", " ">>)

\* metadata is null and the item has a url.
ItemNullMetaUrl ==
    "url" :> Str(UrlY)
    @@ "metadata" :> None
    @@ "markdown" :> Str(<<"h", "i">>)

\* metadata is null and the item has no url.
ItemNullMeta ==
    "metadata" :> None
    @@ "markdown" :> Str(<<"h", "i">>)

Items ==
    {ItemHello, ItemBlank, ItemLong, ItemBare, ItemNullMetaUrl, ItemNullMeta}

Datasets == UNION {[1..n -> Items] : n \in 0..MaxItems}

\* line 76: item.get("metadata", {}).get("url") raises AttributeError when
\* the item holds metadata: null and the left operand of "or" is falsy.
ItemUrlRaises(item) ==
    /\ ~Truthy(Get(item, "url"))
    /\ GetDefault(item, "metadata", EmptyDict).t # "dict"

\* line 76: url = item.get("url") or item.get("metadata", {}).get("url")
ItemUrl(item) ==
    Or(Get(item, "url"), DictGet(GetDefault(item, "metadata", EmptyDict), "url"))

\* line 77: title = (item.get("metadata") or {}).get("title") or url or "Untitled"
ItemTitle(item) ==
    Or(Or(DictGet(Or(Get(item, "metadata"), EmptyDict), "title"),
          ItemUrl(item)),
       Str(Untitled))

\* line 78: markdown = item.get("markdown") or item.get("text") or ""
ItemMarkdown(item) ==
    Or(Or(Get(item, "markdown"), Get(item, "text")), Str(<<>>))

\* line 79: not markdown.strip()
ItemSkipped(item) == Strip(ItemMarkdown(item).v) = <<>>

\* line 81: md = f"**Source:** {url}\n\n{markdown}"
ItemMd(item) ==
    SourcePrefix \o Format(ItemUrl(item)) \o <<"\n", "\n">>
        \o ItemMarkdown(item).v

\* line 82: chunk_markdown(md)
ItemChunks(item) ==
    ChunkMarkdown(Str(ItemMd(item)), DefaultChunkChars, DefaultOverlap)

\* Mutant of PartNumber: the parts are numbered from 0.
PartNumberZeroBased(k) == k

\* line 84: the part number of the chunk enumerate() numbers k (from 0)
PartNumber(k) == k + 1

\* line 84: f"{title} [part {idx+1}]"
PartTitle(t, k) == Format(t) \o PartOpen \o Dec(PartNumber(k)) \o <<"]">>

\* line 84: the payload (its summary, textwrap.shorten of the chunk, is
\* left out: nothing below reads it)
IngestPayload(t, k, chunk) ==
    Dict("title" :> Str(PartTitle(t, k)) @@ "text" :> Str(chunk))

\* line 86: res.get("id") or res.get("content_id")
ContentId(res) == Or(DictGet(res, "id"), DictGet(res, "content_id"))

\* Mutant of SubmitRaised: a failed submission is swallowed.
SubmitRaisedNever(out) == FALSE

\* line 85: whether senso_post raised, which ends the handler
SubmitRaised(out) == out.kind # "return"

\* line 86: content_ids.append(...)
AppendId(ids, id) == Append(ids, id)

\* line 59: [{"url": u} for u in (body.startUrls or [])]
StartUrls(b) ==
    LET us == Or(b.startUrls, List(<<>>)).v
    IN  [k \in 1..Len(us) |-> "url" :> us[k]]

\* lines 58-70: run_input (the fixed crawler options are left out)
RunInput(b) == [startUrls |-> StartUrls(b), maxResults |-> b.maxResults]

IngestBodies ==
    { [startUrls |-> None, maxResults |-> 100],
      [startUrls |-> List(<<Str(UrlX)>>), maxResults |-> 100] }

\* What the indexing service answers to a submission.
IngestResponses ==
    { Response(200, BodyId), Response(201, BodyContentId),
      Response(200, BodyEmptyObject), Response(200, BodyBoom),
      Response(500, BodyBoom), Response(404, BodyEmptyObject),
      NoResponse }

InitIngest ==
    /\ ipc = "start"
    /\ in_body \in IngestBodies
    /\ dataset \in Datasets
    /\ run_input = <<>>
    /\ pos = 0
    /\ title = <<>>
    /\ cur_chunks = <<>>
    /\ idx = 0
    /\ ingested = 0
    /\ content_ids = <<>>
    /\ HttpIdle
    /\ ChunkIdle
    /\ PostIdle
    /\ SearchIdle

\* lines 57-74: run the actor and open its dataset
IngestRun ==
    /\ ipc = "start"
    /\ run_input' = RunInput(in_body)
    /\ ingested' = 0
    /\ content_ids' = <<>>
    /\ ipc' = "items"
    /\ UNCHANGED <<in_body, dataset, pos, title, cur_chunks, idx>>
    /\ UNCHANGED <<httpVars, chunkVars, postVars, searchVars>>

\* line 71: the actor call fails
IngestRunFails ==
    /\ ipc = "start"
    /\ run_input' = RunInput(in_body)
    /\ result' = Raised("ApifyError", 0, <<>>)
    /\ ipc' = "raised"
    /\ UNCHANGED <<in_body, dataset, pos, title, cur_chunks, idx, ingested,
                   content_ids, wire, resps>>
    /\ UNCHANGED <<chunkVars, postVars, searchVars>>

\* lines 75-82: take the next item, or return at the end of the dataset
IngestItem ==
    /\ ipc = "items"
    /\ IF pos = Len(dataset)
       THEN /\ result' = Returned([ingested_chunks |-> ingested,
                                   content_ids |-> content_ids])
            /\ ipc' = "returned"
            /\ UNCHANGED <<pos, title, cur_chunks, idx>>
       ELSE LET item == dataset[pos + 1]
            IN  /\ pos' = pos + 1
                /\ idx' = 0
                /\ IF ItemUrlRaises(item)
                   THEN /\ result' = Raised("AttributeError", 0, <<>>)
                        /\ ipc' = "raised"
                        /\ UNCHANGED <<title, cur_chunks>>
                   ELSE /\ title' = ItemTitle(item)
                        /\ UNCHANGED result
                        /\ IF ItemSkipped(item)
                           THEN ipc' = "items" /\ UNCHANGED cur_chunks
                           ELSE /\ cur_chunks' = ItemChunks(item)
                                /\ ipc' = IF cur_chunks' = <<>>
                                          THEN "items" ELSE "chunks"
    /\ UNCHANGED <<in_body, run_input, dataset, ingested, content_ids,
                   wire, resps>>
    /\ UNCHANGED <<chunkVars, postVars, searchVars>>

\* lines 82-87: submit the next chunk of the current item
IngestChunk ==
    /\ ipc = "chunks"
    /\ \E resp \in IngestResponses :
          LET payload == IngestPayload(title, idx, cur_chunks[idx + 1])
              out == SensoPost(resp)
          IN  /\ wire' = Append(wire, Request(PathContentRaw, payload))
              /\ resps' = Append(resps, resp)
              /\ IF SubmitRaised(out)
                 THEN /\ result' = out
                      /\ ipc' = "raised"
                      /\ UNCHANGED <<idx, ingested, content_ids>>
                 ELSE /\ content_ids' = AppendId(content_ids, ContentId(out.value))
                      /\ ingested' = ingested + 1
                      /\ idx' = idx + 1
                      /\ ipc' = IF idx' = Len(cur_chunks)
                                THEN "items" ELSE "chunks"
                      /\ UNCHANGED result
    /\ UNCHANGED <<in_body, run_input, dataset, pos, title, cur_chunks>>
    /\ UNCHANGED <<chunkVars, postVars, searchVars>>

NextIngest == IngestRun \/ IngestRunFails \/ IngestItem \/ IngestChunk

SpecIngest == InitIngest /\ [][NextIngest]_vars

----------------------------------------------------------------------------
\* Properties of ingest_from_apify.

\* The submission met no usable answer: no response, an error status, or a
\* body that is no JSON document.
SubmissionFailed(resp) ==
    resp = NoResponse \/ IsError(resp) \/ resp.json = NoJson

IngestEnded == ipc \in {"returned", "raised"}

\* C7: once a submission fails no further submission is made, for this item
\* or a later one, and the call ends in an error that carries the upstream
\* status, not in a partial {ingested_chunks, content_ids} result.
C7_AbortOnFailure ==
    /\ [](\A k \in 1..Len(resps) :
             SubmissionFailed(resps[k]) =>
                /\ k = Len(resps)
                /\ ipc = "raised"
                /\ result.kind \notin {"return", "none"}
                /\ result.value = None
                /\ IsError(resps[k]) =>
                      /\ result.kind = "HTTPException"
                      /\ result.status_code = resps[k].status_code)
    /\ [][(ipc = "raised") => (wire' = wire /\ ipc' = ipc /\ result' = result)]_vars

C7_Witness ==
    /\ ipc = "raised"
    /\ Len(wire) >= 2
    /\ ingested >= 1
    /\ IsError(LastResp)
    /\ result.status_code = 500
    /\ idx + 1 < Len(cur_chunks)

RECURSIVE SumChunks(_, _)
\* The chunks of the items from the k-th on whose body is not blank.
SumChunks(ds, k) ==
    IF k > Len(ds) THEN 0
    ELSE (IF ItemSkipped(ds[k]) THEN 0 ELSE Len(ItemChunks(ds[k])))
         + SumChunks(ds, k + 1)

\* "**Source:** http://x\n\nhello world"
ExampleChunkText ==
    <<"*", "*", "S", "o", "u", "r", "c", "e", ":", "*", "*", " ", "h", "t",
      "t", "p", ":", "/", "/", "x", "\n", "\n", "h", "e", "l", "l", "o",
      " ", "w", "o", "r", "l", "d">>

\* What the handler returns, when it returns: the counts agree.
CountsOnReturn ==
    (ipc = "returned") =>
       /\ result.value.ingested_chunks = Len(wire)
       /\ Len(result.value.content_ids) = Len(wire)
       /\ Len(wire) = SumChunks(dataset, 1)

\* C8: for every sequence of items whose submissions all succeed the call
\* returns, with ingested_chunks = the submissions made = the length of
\* content_ids = the chunks of the items with a non-blank body; a response
\* without an identifier adds a null entry; and the one item "hello world"
\* of http://x gives the one chunk "**Source:** http://x\n\nhello world"
\* titled "<title> [part 1]".
C8_CountsAllItems ==
    (IngestEnded /\ result.kind # "ApifyError"
         /\ \A k \in 1..Len(resps) : ~SubmissionFailed(resps[k])) =>
       /\ ipc = "returned"
       /\ result.value.ingested_chunks = Len(wire)
       /\ Len(result.value.content_ids) = Len(wire)
       /\ Len(wire) = SumChunks(dataset, 1)
       /\ \A k \in 1..Len(resps) :
             (resps[k].json = EmptyDict) => result.value.content_ids[k] = None
       /\ (dataset = <<ItemHello>>) =>
             wire = <<Request(PathContentRaw,
                        Dict("title" :> Str(<<"T">> \o PartOpen \o <<"1", "]">>)
                             @@ "text" :> Str(ExampleChunkText)))>>

\* The request the n-th chunk (from 1) of an item is submitted with.
ExpectedRequest(item, n) ==
    Request(PathContentRaw,
            Dict("title" :> Str(Format(ItemTitle(item)) \o PartOpen
                                \o Dec(n) \o <<"]">>)
                 @@ "text" :> Str(ItemChunks(item)[n])))

RECURSIVE ExpectedSubs(_, _)
\* The submissions of the items from the k-th on, item by item and chunk by
\* chunk, up to an item the handler cannot read.
ExpectedSubs(ds, k) ==
    IF k > Len(ds) \/ ItemUrlRaises(ds[k]) THEN <<>>
    ELSE IF ItemSkipped(ds[k]) THEN ExpectedSubs(ds, k + 1)
    ELSE [n \in 1..Len(ItemChunks(ds[k])) |-> ExpectedRequest(ds[k], n)]
         \o ExpectedSubs(ds, k + 1)

IsPrefix(a, b) == Len(a) <= Len(b) /\ a = SubSeq(b, 1, Len(a))

\* C10: chunks are submitted item by item in dataset order and, within an
\* item, in chunk order, the n-th with a title ending in "[part n]", n from
\* 1 for every item; content_ids lists the returned identifiers in that
\* order.
C10_SubmissionOrder ==
    /\ IsPrefix(wire, ExpectedSubs(dataset, 1))
    /\ (ipc = "returned") => wire = ExpectedSubs(dataset, 1)
    /\ Len(content_ids) <= Len(resps)
    /\ \A k \in 1..Len(content_ids) :
          content_ids[k] = ContentId(resps[k].json)

C10_Witness ==
    /\ ipc = "returned"
    /\ Len(dataset) = 2
    /\ Len(wire) = 3
    /\ dataset[1] = ItemLong
    /\ content_ids[1] # content_ids[2]
    /\ content_ids[3] = None

----------------------------------------------------------------------------
\* rag_search

\* SearchBody: q is required, max_results defaults to 5, the two filters
\* default to None.
SearchBodies ==
    [ q : {Str(<<"t", "e", "s", "t">>)},
      max_results : {5, 1},
      category_id : {None, Str(<<>>), Str(<<"c">>)},
      topic_id : {None, Str(<<>>), Str(<<"t">>)} ]

\* Mutant of SearchPayload: the filters are always sent.
SearchPayloadAlwaysFilters(b) ==
    Dict("query" :> b.q @@ "max_results" :> Num(b.max_results)
         @@ "category_id" :> b.category_id @@ "topic_id" :> b.topic_id)

\* lines 93-95: the payload
SearchPayload(b) ==
    LET base == "query" :> b.q @@ "max_results" :> Num(b.max_results)
        cat  == IF Truthy(b.category_id)
                THEN "category_id" :> b.category_id ELSE <<>>
        top  == IF Truthy(b.topic_id)
                THEN "topic_id" :> b.topic_id ELSE <<>>
    IN  Dict(base @@ cat @@ top)

\* lines 97-102: one match, reshaped
SearchMatch(r) ==
    Dict("content_id" :> DictGet(r, "content_id")
         @@ "title" :> DictGet(r, "title")
         @@ "score" :> DictGet(r, "score")
         @@ "chunk" :> DictGet(r, "chunk_text"))

\* lines 97-110: the value returned for the upstream answer res
SearchResult(res) ==
    LET rs == GetDefault(res.v, "results", List(<<>>)).v
    IN  Dict("answer" :> DictGet(res, "answer")
             @@ "results" :> List([k \in 1..Len(rs) |-> SearchMatch(rs[k])])
             @@ "meta" :> Dict("total_results" :> DictGet(res, "total_results")
                               @@ "processing_time_ms"
                                      :> DictGet(res, "processing_time_ms")))

SearchResponses ==
    {Response(st, b) : st \in {200, 304, 500},
                       b \in {BodyBoom, BodyEmptyObject, BodyNoResults,
                              BodyOneResult}}
    \cup {NoResponse}

InitSearch ==
    /\ spc = "call"
    /\ s_body \in SearchBodies
    /\ HttpIdle
    /\ ChunkIdle
    /\ PostIdle
    /\ IngestIdle

\* lines 92-110
RagSearch ==
    /\ spc = "call"
    /\ \E resp \in SearchResponses :
          LET out == SensoPost(resp)
          IN  /\ wire' = Append(wire, Request(PathSearch, SearchPayload(s_body)))
              /\ resps' = Append(resps, resp)
              /\ result' = IF out.kind = "return"
                           THEN Returned(SearchResult(out.value))
                           ELSE out
    /\ spc' = "done"
    /\ UNCHANGED s_body
    /\ UNCHANGED <<chunkVars, postVars, ingestVars>>

NextSearch == RagSearch

SpecSearch == InitSearch /\ [][NextSearch]_vars

\* The keys of the payload that went out.
SentKeys == DOMAIN wire[1].json.v

\* C9 as stated: query and max_results always, category_id exactly when the
\* request's category_id is set, topic_id exactly when its topic_id is set.
C9_Original ==
    (spc = "done") =>
       /\ {"query", "max_results"} \subseteq SentKeys
       /\ ("category_id" \in SentKeys) <=> (s_body.category_id # None)
       /\ ("topic_id" \in SentKeys) <=> (s_body.topic_id # None)

\* C9 (amended): the payload always holds query and max_results, holds
\* category_id exactly when the request's category_id is a non-empty string
\* and topic_id exactly when its topic_id is a non-empty string; no filter
\* goes out as null or empty, and with both filters unset the payload has
\* exactly the keys query and max_results.
C9_FiltersOnlyWhenNonEmpty ==
    (spc = "done") =>
       /\ Len(wire) = 1
       /\ wire[1].url = <<"SENSO_BASE">> \o PathSearch
       /\ {"query", "max_results"} \subseteq SentKeys
       /\ SentKeys \subseteq {"query", "max_results", "category_id", "topic_id"}
       /\ wire[1].json.v["query"] = s_body.q
       /\ wire[1].json.v["max_results"] = Num(s_body.max_results)
       /\ ("category_id" \in SentKeys) <=>
             (s_body.category_id # None /\ s_body.category_id.v # <<>>)
       /\ ("topic_id" \in SentKeys) <=>
             (s_body.topic_id # None /\ s_body.topic_id.v # <<>>)
       /\ \A k \in SentKeys \cap {"category_id", "topic_id"} :
             /\ wire[1].json.v[k] = s_body[k]
             /\ wire[1].json.v[k] \notin {None, Str(<<>>)}
       /\ (s_body.category_id = None /\ s_body.topic_id = None) =>
             SentKeys = {"query", "max_results"}

C9_Witness ==
    /\ spc = "done"
    /\ s_body.category_id = Str(<<"c">>)
    /\ s_body.topic_id = None
    /\ SentKeys = {"query", "max_results", "category_id"}

----------------------------------------------------------------------------
\* The whole program: one call of any of the four operations.

Init == InitChunk \/ InitPost \/ InitIngest \/ InitSearch

Next == NextChunk \/ NextPost \/ NextIngest \/ NextSearch

Spec == Init /\ [][Next]_vars

====
